---- MODULE Spec2Model ----
(***************************************************************************)
(* Model of DependencyAnalyzer (src/main.py): the package info source      *)
(* (get_package_info, get_direct_dependencies) and the depth-first graph   *)
(* builder (build_dependency_graph, run_analysis, main).                   *)
(*                                                                         *)
(* A Python dict is modelled as the sequence of its <<key, value>> items   *)
(* in insertion order, keys pairwise distinct.  The recursion of           *)
(* build_dependency_graph is modelled by an explicit stack of frames.      *)
(***************************************************************************)
EXTENDS Integers, Sequences, FiniteSets, TLC

VARIABLES
    config,            \* self.config: package_name, version, mode, max_depth
    test_file,         \* the file at config['repository_url'] in test mode
    dependency_graph,  \* self.dependency_graph: dict name -> dict dep -> specifier
    stack,             \* active invocations of build_dependency_graph, root first
    pc,                \* position of main(): "init", "running", "done", "error"
    fetched,           \* log of the get_package_info invocations, in order
    cycles,            \* the cycle chains printed at line 84, in order
    printed,           \* whether run_analysis printed the final graph (108-111)
    info               \* last get_package_info call of the query harness

vars == <<config, test_file, dependency_graph, stack, pc, fetched, cycles, printed, info>>

----------------------------------------------------------------------------
(* Bounds of the explored inputs *)

MaxDeps == 2        \* longest dependency mapping of a generated fixture entry
MaxDepthCfg == 3    \* largest generated max_depth
MaxVersions == 2    \* longest `versions` mapping of a generated response

StatusOK == 200

Names == {"A", "B", "C"}
NameOrder == <<"A", "B", "C", "D">>
Specs == {"1.0", "2.0"}
VersionKeys == {"", "1.0", "2.0"}

----------------------------------------------------------------------------
(* Python dict operations on item sequences *)

EmptyDict == << >>

DictKeys(d) == {d[i][1] : i \in DOMAIN d}

DictKeyList(d) == [i \in DOMAIN d |-> d[i][1]]

DictGet(d, k) == d[CHOOSE i \in DOMAIN d : d[i][1] = k][2]

DictGetOr(d, k, default) == IF k \in DictKeys(d) THEN DictGet(d, k) ELSE default

\* a new key put in front of the items instead of after them
DictSet_front(d, k, v) ==
    IF k \in DictKeys(d)
    THEN [i \in DOMAIN d |-> IF d[i][1] = k THEN <<k, v>> ELSE d[i]]
    ELSE << <<k, v>> >> \o d

\* the assignment replacing the whole dict instead of setting one item
DictSet_replace(d, k, v) == << <<k, v>> >>

DictSet(d, k, v) ==
    IF k \in DictKeys(d)
    THEN [i \in DOMAIN d |-> IF d[i][1] = k THEN <<k, v>> ELSE d[i]]
    ELSE Append(d, <<k, v>>)

SeqElems(s) == {s[i] : i \in DOMAIN s}

DistinctKeys(d) == \A i, j \in DOMAIN d : d[i][1] = d[j][1] => i = j

----------------------------------------------------------------------------
(* Package Info Source *)

Returned(v) == [raised |-> FALSE, value |-> v]
Raised == [raised |-> TRUE, value |-> EmptyDict]

\* Python's None is the empty tuple, a value k is <<k>>.
None == << >>

\* truth value of `first_version` (line 57): None and "" are false
Truthy(opt) == opt # None /\ opt[1] # ""

\* line 56: list(versions.keys())[0] if versions else None
FirstVersion(versions) ==
    IF versions # EmptyDict THEN <<DictKeyList(versions)[1]>> ELSE None

\* test mode indexing the fixture (test_data[package_name]): a missing name raises
get_package_info_KeyError(cfg, file, package_name, version, response) ==
    IF cfg.mode = "test"
    THEN IF file.exists /\ package_name \in DictKeys(file.data)
         THEN Returned(DictGet(file.data, package_name))
         ELSE Raised
    ELSE IF response.status_code = StatusOK
         THEN LET versions == DictGetOr(response.body, "versions", EmptyDict)
              IN  IF version \in DictKeys(versions)
                  THEN Returned(DictGet(versions, version))
                  ELSE LET first_version == FirstVersion(versions)
                       IN  IF Truthy(first_version)
                           THEN Returned(DictGet(versions, first_version[1]))
                           ELSE Raised
         ELSE Raised

\* lines 35-59; `response` is what requests.get(url) answers (live mode only)
get_package_info(cfg, file, package_name, version, response) ==
    IF cfg.mode = "test"
    THEN IF file.exists
         THEN Returned(DictGetOr(file.data, package_name, EmptyDict))
         ELSE Raised
    ELSE IF response.status_code = StatusOK
         THEN LET versions == DictGetOr(response.body, "versions", EmptyDict)
              IN  IF version \in DictKeys(versions)
                  THEN Returned(DictGet(versions, version))
                  ELSE LET first_version == FirstVersion(versions)
                       IN  IF Truthy(first_version)
                           THEN Returned(DictGet(versions, first_version[1]))
                           ELSE Raised
         ELSE Raised

\* the dependency mapping read under a key the metadata never has
get_direct_dependencies_wrongKey(cfg, file, package_name, version, response) ==
    LET package_info == get_package_info(cfg, file, package_name, version, response)
    IN  IF package_info.raised
        THEN Raised
        ELSE Returned(DictGetOr(package_info.value, "dependency", EmptyDict))

\* lines 61-71
get_direct_dependencies(cfg, file, package_name, version, response) ==
    LET package_info == get_package_info(cfg, file, package_name, version, response)
    IN  IF package_info.raised
        THEN Raised
        ELSE Returned(DictGetOr(package_info.value, "dependencies", EmptyDict))

----------------------------------------------------------------------------
(* Inputs: configurations, fixture files, registry responses *)

Dep(n, s) == <<n, s>>
Meta(d) == << <<"dependencies", d>> >>

\* dependency mappings of at most MaxDeps entries over Names, specifiers in S
DepMapsOf(S) ==
    UNION {{d \in [1..n -> Names \X S] : DistinctKeys(d)} : n \in 0..MaxDeps}

FixtureMetas == {EmptyDict} \cup {Meta(d) : d \in DepMapsOf({"1.0"})}

\* the JSON object of a fixture file: the entries of f in NameOrder
FixtureOf(f) ==
    LET ks == SelectSeq(NameOrder, LAMBDA n : n \in DOMAIN f)
    IN  [i \in DOMAIN ks |-> <<ks[i], f[ks[i]]>>]

Fixtures == {FixtureOf(f) : f \in UNION {[S -> FixtureMetas] : S \in SUBSET Names}}

\* the fixture of the end-to-end scenario
E2EFixture ==
    << <<"A", Meta(<<Dep("B", "1.0"), Dep("C", "1.0")>>)>>,
       <<"B", Meta(EmptyDict)>>,
       <<"C", Meta(<<Dep("B", "1.0")>>)>> >>

\* A depends on B and B depends on A
CycleFixture ==
    << <<"A", Meta(<<Dep("B", "1.0")>>)>>,
       <<"B", Meta(<<Dep("A", "1.0")>>)>> >>

\* the chain A -> B -> C -> D
ChainFixture ==
    << <<"A", Meta(<<Dep("B", "1.0")>>)>>,
       <<"B", Meta(<<Dep("C", "1.0")>>)>>,
       <<"C", Meta(<<Dep("D", "1.0")>>)>>,
       <<"D", Meta(EmptyDict)>> >>

\* B and C both depend on D
DeepDiamondFixture ==
    << <<"A", Meta(<<Dep("B", "1.0"), Dep("C", "1.0")>>)>>,
       <<"B", Meta(<<Dep("D", "1.0")>>)>>,
       <<"C", Meta(<<Dep("D", "1.0")>>)>>,
       <<"D", Meta(EmptyDict)>> >>

\* C is listed by A and by B, which comes first, and D by C alone
LongPathFirstFixture ==
    << <<"A", Meta(<<Dep("B", "1.0"), Dep("C", "1.0")>>)>>,
       <<"B", Meta(<<Dep("C", "1.0")>>)>>,
       <<"C", Meta(<<Dep("D", "1.0")>>)>>,
       <<"D", Meta(EmptyDict)>> >>

NamedFixtures ==
    {E2EFixture, CycleFixture, ChainFixture, DeepDiamondFixture, LongPathFirstFixture}

File(data) == [exists |-> TRUE, data |-> data]
NoFile == [exists |-> FALSE, data |-> EmptyDict]

Config(mode, max_depth) ==
    [package_name |-> "A", version |-> "1.0", mode |-> mode, max_depth |-> max_depth]

E2EConfig == Config("test", 5)

\* metadata records a live registry publishes
PublishedDeps ==
    { EmptyDict,
      <<Dep("B", "1.0"), Dep("C", "1.0")>>,
      <<Dep("B", "2.0")>>,
      <<Dep("A", "1.0")>>,
      <<Dep("C", "2.0"), Dep("B", "1.0")>> }

LiveMetas == {EmptyDict} \cup {Meta(d) : d \in PublishedDeps}

VersionDicts ==
    UNION {{v \in [1..n -> VersionKeys \X LiveMetas] : DistinctKeys(v)} : n \in 0..MaxVersions}

Response(status_code, body) == [status_code |-> status_code, body |-> body]

\* any status other than 200 is a failure; 404 stands for them
NotFound == Response(404, EmptyDict)

Responses ==
    {NotFound, Response(StatusOK, EmptyDict)}
    \cup {Response(StatusOK, << <<"versions", v>> >>) : v \in VersionDicts}

\* test mode issues no request
NoResponse == NotFound

ResponsesFor(cfg) == IF cfg.mode = "test" THEN {NoResponse} ELSE Responses

Scenarios ==
    {[config |-> Config("test", d), file |-> File(fx)] :
        d \in 0..MaxDepthCfg, fx \in Fixtures \cup NamedFixtures}
    \cup {[config |-> E2EConfig, file |-> File(E2EFixture)]}
    \cup {[config |-> Config("test", d), file |-> NoFile] : d \in 0..MaxDepthCfg}
    \cup {[config |-> Config("live", d), file |-> NoFile] : d \in 0..MaxDepthCfg}

----------------------------------------------------------------------------
(* Graph Builder *)

\* the callee's path already holding the callee's own name
Frame_inclusive(package_name, version, depth, path) ==
    [package_name |-> package_name, version |-> version, depth |-> depth,
     path |-> Append(path, package_name), at |-> "enter", current_path |-> << >>,
     dependencies |-> EmptyDict, i |-> 0]

\* an invocation of build_dependency_graph that has not yet run its body
Frame(package_name, version, depth, path) ==
    [package_name |-> package_name, version |-> version, depth |-> depth,
     path |-> path, at |-> "enter", current_path |-> << >>,
     dependencies |-> EmptyDict, i |-> 0]

Top == stack[Len(stack)]
Pop == SubSeq(stack, 1, Len(stack) - 1)

\* the depth guard cutting one level too early
DepthExceeded_early(depth, max_depth) == depth >= max_depth

\* the depth guard cutting one level too late
DepthExceeded_late(depth, max_depth) == depth > max_depth + 1

\* the depth guard missing
DepthExceeded_never(depth, max_depth) == FALSE

\* line 79
DepthExceeded(depth, max_depth) == depth > max_depth

\* line 83
InPath(package_name, path) == package_name \in SeqElems(path)

\* the memoization check missing: every dependency is expanded
NotInGraph_always(dep_name, graph) == TRUE

\* line 95
NotInGraph(dep_name, graph) == dep_name \notin DictKeys(graph)

\* the exception caught per node: the failing invocation alone is abandoned
Propagate_caught(stk) == [pc |-> "running", stack |-> SubSeq(stk, 1, Len(stk) - 1)]

\* an exception raised at line 90 is caught nowhere before main (lines 115-119):
\* every active invocation and run_analysis are abandoned
Propagate(stk) == [pc |-> "error", stack |-> << >>]

\* the loop visiting the items from the last to the first
ItemAt_reversed(dependencies, i) == dependencies[Len(dependencies) + 1 - i]

\* line 94: the i-th item of dependencies.items()
ItemAt(dependencies, i) == dependencies[i]

FetchEntry(f, result) ==
    [package_name |-> f.package_name, version |-> f.version, depth |-> f.depth,
     raised |-> result.raised, dependencies |-> result.value]

NoQuery ==
    [asked |-> FALSE, package_name |-> "", version |-> "",
     response |-> NoResponse, result |-> Raised]

Init ==
    /\ \E s \in Scenarios : config = s.config /\ test_file = s.file
    /\ dependency_graph = EmptyDict
    /\ stack = << >>
    /\ pc = "init"
    /\ fetched = << >>
    /\ cycles = << >>
    /\ printed = FALSE
    /\ info = NoQuery

\* lines 98-106: run_analysis calls build_dependency_graph for the root
run_analysis ==
    /\ pc = "init"
    /\ pc' = "running"
    /\ stack' = <<Frame(config.package_name, config.version, 0, << >>)>>
    /\ UNCHANGED <<config, test_file, dependency_graph, fetched, cycles, printed, info>>

\* lines 75-91: the guards, the fetch and the recording of one invocation; an
\* exception of get_package_info unwinds every frame up to main (lines 118-119)
build_dependency_graph ==
    /\ pc = "running"
    /\ stack # << >>
    /\ Top.at = "enter"
    /\ IF DepthExceeded(Top.depth, config.max_depth)
       THEN /\ stack' = Pop
            /\ UNCHANGED <<pc, dependency_graph, fetched, cycles>>
       ELSE IF InPath(Top.package_name, Top.path)
       THEN /\ cycles' = Append(cycles, Append(Top.path, Top.package_name))
            /\ stack' = Pop
            /\ UNCHANGED <<pc, dependency_graph, fetched>>
       ELSE \E response \in ResponsesFor(config) :
            LET current_path == Append(Top.path, Top.package_name)
                dependencies == get_direct_dependencies(config, test_file,
                                    Top.package_name, Top.version, response)
            IN  /\ fetched' = Append(fetched, FetchEntry(Top, dependencies))
                /\ cycles' = cycles
                /\ IF dependencies.raised
                   THEN /\ pc' = Propagate(stack).pc
                        /\ stack' = Propagate(stack).stack
                        /\ dependency_graph' = dependency_graph
                   ELSE /\ pc' = pc
                        /\ dependency_graph' =
                               DictSet(dependency_graph, Top.package_name, dependencies.value)
                        /\ stack' = [stack EXCEPT ![Len(stack)] =
                               [@ EXCEPT !.at = "loop", !.current_path = current_path,
                                         !.dependencies = dependencies.value, !.i = 1]]
    /\ UNCHANGED <<config, test_file, printed, info>>

\* lines 94-96: one iteration of the loop over dependencies.items()
expand_dependency ==
    /\ pc = "running"
    /\ stack # << >>
    /\ Top.at = "loop"
    /\ Top.i <= Len(Top.dependencies)
    /\ LET dep_name == ItemAt(Top.dependencies, Top.i)[1]
           dep_version == ItemAt(Top.dependencies, Top.i)[2]
           advanced == [stack EXCEPT ![Len(stack)] = [@ EXCEPT !.i = @ + 1]]
       IN  IF NotInGraph(dep_name, dependency_graph)
           THEN stack' = Append(advanced, Frame(dep_name, dep_version, Top.depth + 1, Top.current_path))
           ELSE stack' = advanced
    /\ UNCHANGED <<config, test_file, dependency_graph, pc, fetched, cycles, printed, info>>

\* line 94 exhausted: the invocation returns to its caller
return_from_build ==
    /\ pc = "running"
    /\ stack # << >>
    /\ Top.at = "loop"
    /\ Top.i > Len(Top.dependencies)
    /\ stack' = Pop
    /\ UNCHANGED <<config, test_file, dependency_graph, pc, fetched, cycles, printed, info>>

\* lines 108-111: the root invocation returned, the final graph is printed
print_graph ==
    /\ pc = "running"
    /\ stack = << >>
    /\ pc' = "done"
    /\ printed' = TRUE
    /\ UNCHANGED <<config, test_file, dependency_graph, stack, fetched, cycles, info>>

Next ==
    \/ run_analysis
    \/ build_dependency_graph
    \/ expand_dependency
    \/ return_from_build
    \/ print_graph

Spec == Init /\ [][Next]_vars

\* get_package_info applied on its own: the request and the registry's answer
\* are drawn initially, the one step applies the function to them
Query(package_name, version, response) ==
    [asked |-> FALSE, package_name |-> package_name, version |-> version,
     response |-> response, result |-> Raised]

InitInfo ==
    /\ \E s \in Scenarios :
          /\ s.config.max_depth = 0
          /\ s.file \in {NoFile, File(E2EFixture)}
          /\ config = s.config /\ test_file = s.file
    /\ dependency_graph = EmptyDict
    /\ stack = << >>
    /\ pc = "init"
    /\ fetched = << >>
    /\ cycles = << >>
    /\ printed = FALSE
    /\ \E package_name \in Names, version \in VersionKeys, response \in ResponsesFor(config) :
          info = Query(package_name, version, response)

query_package_info ==
    /\ ~info.asked
    /\ info' = [info EXCEPT !.asked = TRUE,
                            !.result = get_package_info(config, test_file, info.package_name,
                                                        info.version, info.response)]
    /\ UNCHANGED <<config, test_file, dependency_graph, stack, pc, fetched, cycles, printed>>

NextInfo == query_package_info

SpecInfo == InitInfo /\ [][NextInfo]_vars

\* the traversal is one sequential thread: a step that can be taken is taken
FairSpec == Spec /\ WF_vars(Next)

----------------------------------------------------------------------------
(* Observations used by the properties *)

AllNames == SeqElems(NameOrder)

GraphKeys == DictKeys(dependency_graph)

FetchCountIn(log, p) == Cardinality({i \in DOMAIN log : log[i].package_name = p})

FetchCount(p) == FetchCountIn(fetched, p)

FetchOf(p) == fetched[CHOOSE i \in DOMAIN fetched : fetched[i].package_name = p]

\* the recorded packages that list p as a dependency
ListedBy(p) == {q \in GraphKeys : p \in DictKeys(DictGet(dependency_graph, q))}

\* p is met in more than one branch of the traversal
MultiBranch(p) == Cardinality(ListedBy(p)) >= 2

TestRun(fixture) == config.mode = "test" /\ test_file = File(fixture)

\* the dependency names the fixture declares for p (none for a missing package)
FixtureDeps(data, p) ==
    DictGetOr(DictGetOr(data, p, EmptyDict), "dependencies", EmptyDict)

RECURSIVE ReachFrom(_, _)
ReachFrom(data, S) ==
    LET next == S \cup UNION {DictKeys(FixtureDeps(data, p)) : p \in S}
    IN  IF next = S THEN S ELSE ReachFrom(data, next)

\* the package names reachable from root through declared dependencies
Reachable(data, root) == ReachFrom(data, {root})

----------------------------------------------------------------------------
(* C1 *)

----------------------------------------------------------------------------
(* C2 *)

\* C2 as stated: traversing the registry A <-> B from A with max_depth >= 1 ends
\* with A and B recorded and the cycle chain A -> B -> A reported.
C2_CycleReported ==
    (TestRun(CycleFixture) /\ config.max_depth >= 1 /\ pc = "done")
        => /\ {"A", "B"} \subseteq GraphKeys
           /\ <<"A", "B", "A">> \in SeqElems(cycles)

----------------------------------------------------------------------------
(* C3 *)

\* C3 as stated: with max_depth = 1 the chain A -> B -> C -> D ends with the
\* key set {A, B, C}.
C3_ChainKeysABC ==
    (TestRun(ChainFixture) /\ config.max_depth = 1 /\ pc = "done")
        => GraphKeys = {"A", "B", "C"}

\* C3 amended: with max_depth = 1 the chain A -> B -> C -> D ends with the key
\* set {A, B}: C, reached at depth 2, is cut like D.
C3_ChainKeysAB ==
    (TestRun(ChainFixture) /\ config.max_depth = 1 /\ pc = "done")
        => GraphKeys = {"A", "B"}

\* the chain traversal with max_depth = 1 has completed
C3_Witness ==
    TestRun(ChainFixture) /\ config.max_depth = 1 /\ pc = "done"

----------------------------------------------------------------------------
(* C4 *)

\* C4: no invocation of build_dependency_graph has a depth above max_depth + 1,
\* and the run eventually ends (run_analysis returns, or the fetch error reaches
\* main), cyclic registries included.
C4_Termination ==
    /\ [](\A i \in DOMAIN stack : stack[i].depth <= config.max_depth + 1)
    /\ <>(pc \in {"done", "error"})

\* in the cyclic registry A <-> B an invocation at depth max_depth + 1 is active
C4_Witness ==
    /\ TestRun(CycleFixture)
    /\ \E i \in DOMAIN stack : stack[i].depth = config.max_depth + 1

----------------------------------------------------------------------------
(* C5 *)

\* C5: a completed test-mode run whose max_depth is at least the number of
\* reachable package names ends with exactly the reachable names as keys, each
\* mapped to its dependency mapping in the fixture and fetched exactly once; the
\* end-to-end scenario ends with the graph {A: {B, C}, B: {}, C: {B}}.
C5_FullResolution ==
    (config.mode = "test" /\ test_file.exists /\ pc = "done")
        => LET R == Reachable(test_file.data, config.package_name)
           IN  /\ config.max_depth >= Cardinality(R)
                    => /\ GraphKeys = R
                       /\ \A p \in R :
                            /\ DictGet(dependency_graph, p) = FixtureDeps(test_file.data, p)
                            /\ FetchCount(p) = 1
               /\ (config = E2EConfig /\ test_file = File(E2EFixture))
                    => /\ dependency_graph =
                            << <<"A", <<Dep("B", "1.0"), Dep("C", "1.0")>> >>,
                               <<"B", EmptyDict>>,
                               <<"C", <<Dep("B", "1.0")>> >> >>
                       /\ FetchCount("B") = 1

\* the end-to-end scenario has completed
C5_Witness ==
    config = E2EConfig /\ test_file = File(E2EFixture) /\ pc = "done"

----------------------------------------------------------------------------
(* C6 *)

\* C6: a failed get_package_info invocation is the last one of the run: the run
\* is in error with every invocation abandoned, the final graph is not printed,
\* the failing package is no key, and the graph holds exactly the packages
\* fetched before the failure.
C6_FatalFetchError ==
    \A i \in DOMAIN fetched :
        fetched[i].raised
            => /\ i = Len(fetched)
               /\ pc = "error"
               /\ stack = << >>
               /\ ~printed
               /\ fetched[i].package_name \notin GraphKeys
               /\ DictKeyList(dependency_graph) =
                      [j \in 1..(Len(fetched) - 1) |-> fetched[j].package_name]

\* a fetch failed below the root while a recorded package still had a dependency
\* other than the failing one to expand
C6_Witness ==
    /\ pc = "error"
    /\ Len(fetched) >= 2
    /\ \E q \in GraphKeys :
         \E d \in DictKeys(DictGet(dependency_graph, q)) :
            d \notin GraphKeys /\ d # fetched[Len(fetched)].package_name

----------------------------------------------------------------------------
(* C7 *)

MissingVisited ==
    {p \in AllNames : FetchCount(p) > 0 /\ p \notin DictKeys(test_file.data)}

\* C7: in test mode a visited package that is no key of the fixture is fetched
\* without error and recorded with an empty mapping, no invocation is made from
\* it, the run goes on, and a completed run has expanded the dependencies of every
\* package fetched above max_depth, the siblings of missing packages included.
C7_MissingTestPackage ==
    (config.mode = "test" /\ test_file.exists)
        => /\ \A p \in MissingVisited :
                /\ ~FetchOf(p).raised
                /\ p \in GraphKeys
                /\ DictGet(dependency_graph, p) = EmptyDict
                /\ \A i \in DOMAIN stack :
                      stack[i].path # << >> => stack[i].path[Len(stack[i].path)] # p
           /\ pc # "error"
           /\ pc = "done"
                => \A q \in GraphKeys :
                      FetchOf(q).depth < config.max_depth
                          => DictKeys(DictGet(dependency_graph, q)) \subseteq GraphKeys

\* a completed test-mode run visited a missing package and then recorded a
\* sibling listed after it
C7_Witness ==
    /\ config.mode = "test" /\ test_file.exists /\ pc = "done"
    /\ \E q \in GraphKeys :
         LET deps == DictGet(dependency_graph, q)
         IN  \E i, j \in DOMAIN deps :
                /\ i < j
                /\ deps[i][1] \in MissingVisited
                /\ deps[j][1] \in GraphKeys
                /\ FetchOf(deps[j][1]).depth = FetchOf(q).depth + 1

----------------------------------------------------------------------------
(* C8 *)

\* C8 as stated: a live-mode lookup answered with status 200 returns
\* versions[version] when version is a key, and for a non-empty versions mapping
\* without that key returns the entry under its first key and never raises.
C8_FallbackResolution ==
    (info.asked /\ config.mode = "live" /\ info.response.status_code = StatusOK)
        => LET versions == DictGetOr(info.response.body, "versions", EmptyDict)
           IN  /\ info.version \in DictKeys(versions)
                    => info.result = Returned(DictGet(versions, info.version))
               /\ (versions # EmptyDict /\ info.version \notin DictKeys(versions))
                    => info.result = Returned(versions[1][2])

----------------------------------------------------------------------------
(* C9 *)

Entering == stack # << >> /\ Top.at = "enter" /\ stack' # stack

\* C9: an invocation with depth > max_depth returns without a fetch and leaves
\* the graph unchanged; an invocation with depth = max_depth whose name is not in
\* path invokes get_package_info and, the fetch returning, records the package;
\* so every fetch happens at a depth <= max_depth, every active invocation beyond
\* it is at depth max_depth + 1 and still unvisited.
C9_DepthGuard ==
    /\ [][Entering /\ Top.depth > config.max_depth
            => /\ stack' = Pop
               /\ UNCHANGED <<dependency_graph, fetched, cycles>>]_vars
    /\ [][Entering /\ Top.depth = config.max_depth
                   /\ Top.package_name \notin SeqElems(Top.path)
            => /\ Len(fetched') = Len(fetched) + 1
               /\ fetched'[Len(fetched')].package_name = Top.package_name
               /\ fetched'[Len(fetched')].depth = config.max_depth
               /\ ~fetched'[Len(fetched')].raised
                    => /\ Top.package_name \in DictKeys(dependency_graph')
                       /\ Top.package_name \notin GraphKeys]_vars
    /\ [](\A i \in DOMAIN fetched : fetched[i].depth <= config.max_depth)
    /\ [](\A i \in DOMAIN stack :
             stack[i].depth > config.max_depth
                => stack[i].depth = config.max_depth + 1 /\ stack[i].at = "enter")

\* with max_depth = 1 a package was fetched at depth 1 and an invocation at
\* depth 2 is about to be cut
C9_Witness ==
    /\ config.max_depth = 1
    /\ \E i \in DOMAIN fetched : fetched[i].depth = 1 /\ ~fetched[i].raised
    /\ stack # << >> /\ Top.depth = 2 /\ Top.at = "enter"

----------------------------------------------------------------------------
(* C10 *)

\* C10: the graph only grows (each step keeps the items it has, in place); a
\* package that is a key is not fetched again; and every key's recorded mapping
\* is the one returned by its single fetch, made with the version specifier of
\* its first visit.
C10_FirstVisitWins ==
    /\ [][/\ Len(dependency_graph') >= Len(dependency_graph)
          /\ SubSeq(dependency_graph', 1, Len(dependency_graph)) = dependency_graph
          /\ \A p \in GraphKeys : FetchCountIn(fetched', p) = FetchCountIn(fetched, p)]_vars
    /\ [](\A p \in GraphKeys :
            /\ FetchCount(p) = 1
            /\ ~FetchOf(p).raised
            /\ DictGet(dependency_graph, p) = FetchOf(p).dependencies)

\* a completed live run in which a recorded package is listed with a version
\* specifier other than the one it was fetched with
C10_Witness ==
    /\ config.mode = "live" /\ pc = "done"
    /\ \E p \in GraphKeys : \E q \in ListedBy(p) :
          DictGet(DictGet(dependency_graph, q), p) # FetchOf(p).version

----------------------------------------------------------------------------
(* C11 *)

IsPrefix(s, t) == Len(s) <= Len(t) /\ SubSeq(t, 1, Len(s)) = s

\* the names of the fetches that returned, in order
FetchedNames ==
    LET ok == SelectSeq(fetched, LAMBDA e : ~e.raised)
    IN  [i \in DOMAIN ok |-> ok[i].package_name]

\* depth-first pre-order over a fixture, as a recursive function: a name within
\* max_depth is listed, then each of its dependencies not yet listed is walked to
\* the end, in the order of the mapping
RECURSIVE PreVisit(_, _, _, _, _)
RECURSIVE PreChildren(_, _, _, _, _, _)
PreVisit(data, max_depth, name, depth, order) ==
    IF depth > max_depth
    THEN order
    ELSE PreChildren(data, max_depth, FixtureDeps(data, name), 1, depth,
                     Append(order, name))
PreChildren(data, max_depth, deps, i, depth, order) ==
    IF i > Len(deps)
    THEN order
    ELSE PreChildren(data, max_depth, deps, i + 1, depth,
                     IF deps[i][1] \in SeqElems(order)
                     THEN order
                     ELSE PreVisit(data, max_depth, deps[i][1], depth + 1, order))

PreOrder(data, max_depth, root) == PreVisit(data, max_depth, root, 0, << >>)

\* the fetch that made the invocation of fetch k: the latest one before k that is
\* one level higher
ParentOf(k) ==
    CHOOSE j \in 1..(k - 1) :
        /\ fetched[j].depth = fetched[k].depth - 1
        /\ \A l \in (j + 1)..(k - 1) : fetched[l].depth # fetched[k].depth - 1

IndexIn(d, name) == CHOOSE i \in DOMAIN d : d[i][1] = name

\* C11: the keys of the graph are, in insertion order, the packages fetched, in
\* fetch order; the fetches form a depth-first pre-order (the first is the root at
\* depth 0, each later one is a dependency of the nearest earlier fetch one level
\* higher, with nothing shallower in between, and the children of one package
\* come in the order of its mapping); in test mode the order is the pre-order of
\* the fixture, of which every intermediate graph is a prefix.
C11_DiscoveryOrder ==
    /\ DictKeyList(dependency_graph) = FetchedNames
    /\ \A k \in DOMAIN fetched :
          IF k = 1
          THEN fetched[k].depth = 0 /\ fetched[k].package_name = config.package_name
          ELSE /\ fetched[k].depth >= 1
               /\ fetched[k].depth <= fetched[k - 1].depth + 1
               /\ fetched[k].package_name \in DictKeys(fetched[ParentOf(k)].dependencies)
    /\ \A k1, k2 \in DOMAIN fetched :
          (1 < k1 /\ k1 < k2 /\ fetched[k1].depth = fetched[k2].depth
                  /\ ParentOf(k1) = ParentOf(k2))
              => IndexIn(fetched[ParentOf(k1)].dependencies, fetched[k1].package_name)
                     < IndexIn(fetched[ParentOf(k1)].dependencies, fetched[k2].package_name)
    /\ (config.mode = "test" /\ test_file.exists)
          => LET order == PreOrder(test_file.data, config.max_depth, config.package_name)
             IN  /\ IsPrefix(DictKeyList(dependency_graph), order)
                 /\ pc = "done" => DictKeyList(dependency_graph) = order

\* a completed run whose third key was fetched two levels down although the root
\* lists it too, after the key the root lists first
C11_Witness ==
    /\ pc = "done"
    /\ Len(dependency_graph) >= 3
    /\ fetched[3].depth = 2
    /\ fetched[3].package_name \in DictKeys(fetched[1].dependencies)

----------------------------------------------------------------------------
(* C12 *)

\* the package names of the invocations enclosing the i-th active one, root first
AncestorNames(i) == [j \in 1..(i - 1) |-> stack[j].package_name]

\* C12: in every active invocation path is the sequence of the names of the
\* enclosing active invocations, root first, without the invocation's own name,
\* and its length is depth; current_path is path plus the own name; and no step
\* changes the path of an invocation that stays active.
C12_PathIsAncestorChain ==
    /\ [](\A i \in DOMAIN stack :
             /\ stack[i].path = AncestorNames(i)
             /\ Len(stack[i].path) = stack[i].depth
             /\ stack[i].package_name \notin SeqElems(stack[i].path)
             /\ stack[i].at = "loop"
                  => stack[i].current_path = Append(stack[i].path, stack[i].package_name)
             /\ i < Len(stack) => stack[i].at = "loop")
    /\ [][\A i \in DOMAIN stack \cap DOMAIN stack' :
             /\ stack'[i].path = stack[i].path
             /\ stack'[i].package_name = stack[i].package_name
             /\ stack[i].at = "loop" => stack'[i].current_path = stack[i].current_path]_vars

\* an invocation below the root is entered after another branch has returned: a
\* recorded package is not among its ancestors
C12_Witness ==
    /\ stack # << >>
    /\ Top.at = "enter"
    /\ Len(Top.path) >= 1
    /\ \E p \in GraphKeys : p \notin SeqElems(Top.path)

----------------------------------------------------------------------------
(* C13 *)

\* the names at most k edges away from the names of S in the fixture
RECURSIVE WithinEdges(_, _, _)
WithinEdges(data, S, k) ==
    IF k = 0
    THEN S
    ELSE WithinEdges(data, S \cup UNION {DictKeys(FixtureDeps(data, p)) : p \in S}, k - 1)

\* C13 as stated: a test-mode run that ends without error has recorded every
\* package whose shortest distance from the root is at most max_depth.
C13_DepthComplete ==
    (config.mode = "test" /\ test_file.exists /\ pc = "done")
        => WithinEdges(test_file.data, {config.package_name}, config.max_depth)
               \subseteq GraphKeys

----------------------------------------------------------------------------
(* C14 *)

\* C14: in every invocation the names of path are keys of the graph and pairwise
\* distinct, the invoked name is not in path when the cycle guard is evaluated,
\* and so no cycle is ever reported.
C14_AncestorsRecorded ==
    /\ \A i \in DOMAIN stack :
          /\ SeqElems(stack[i].path) \subseteq GraphKeys
          /\ \A a, b \in DOMAIN stack[i].path :
                stack[i].path[a] = stack[i].path[b] => a = b
          /\ stack[i].at = "enter" => ~InPath(stack[i].package_name, stack[i].path)
    /\ cycles = << >>

\* an invocation that passes the depth guard is entered from a package that
\* lists itself or one of its own ancestors
C14_Witness ==
    /\ Len(stack) >= 2
    /\ Top.at = "enter"
    /\ Top.depth <= config.max_depth
    /\ \E d \in DictKeys(stack[Len(stack) - 1].dependencies) :
          d \in SeqElems(stack[Len(stack) - 1].current_path)

----------------------------------------------------------------------------
(* C15 *)

\* C15: the first key is the root and every other key is listed in the recorded
\* mapping of a key inserted before it; every key was fetched at a depth up to
\* max_depth; in test mode every key is reachable from the root in the fixture;
\* and the fetches that returned are as many as the keys.
C15_KeysJustified ==
    /\ \A i \in DOMAIN dependency_graph :
          /\ IF i = 1
             THEN dependency_graph[i][1] = config.package_name
             ELSE \E j \in 1..(i - 1) :
                     dependency_graph[i][1] \in DictKeys(dependency_graph[j][2])
          /\ FetchCount(dependency_graph[i][1]) = 1
          /\ FetchOf(dependency_graph[i][1]).depth <= config.max_depth
    /\ (config.mode = "test" /\ test_file.exists)
          => GraphKeys \subseteq Reachable(test_file.data, config.package_name)
    /\ Cardinality({i \in DOMAIN fetched : ~fetched[i].raised}) = Len(dependency_graph)

\* a completed test-mode run recorded three packages while the fixture holds a
\* package that is not reachable from the root
C15_Witness ==
    /\ config.mode = "test" /\ test_file.exists /\ pc = "done"
    /\ Len(dependency_graph) >= 2
    /\ \E p \in DictKeys(test_file.data) :
          p \notin Reachable(test_file.data, config.package_name)

====
